---- MODULE Spec2Model ----
(***************************************************************************)
(* State-machine model of src/app.py: the Streamlit movie recommender.     *)
(*                                                                         *)
(*   fetch_poster  (lines 16-67)   remote poster lookup behind             *)
(*                                 st.cache_data(ttl=3600)                 *)
(*   recommend     (lines 71-101)  top-5 neighbours of a title             *)
(*   load_data     (lines 105-134) unpickles the catalog and the matrix    *)
(*   script body   (lines 137-235) loads the data, gates the UI            *)
(*                                                                         *)
(* Python values are modelled as records [t, v]: an int n is               *)
(* [t |-> "int", v |-> n], the decimal string of n is [t |-> "str", ...],  *)
(* a non-numeric string is [t |-> "text", ...] and None is [t |-> "none"]. *)
(* Positions are 1-based here (Python position p is p + 1).  Similarity    *)
(* scores are small integers standing for floats; only their order         *)
(* matters to the code.                                                    *)
(***************************************************************************)
EXTENDS Integers, Sequences, FiniteSets, TLC

VARIABLES
    build,       \* the installed requests library: "json_is_value_error" (< 2.27) or "json_is_request_exception" (>= 2.27)
    pc,          \* where the script is: "start", "idle", "lib", "recommend", "done"
    load_error,  \* which st.error load_data displayed ("none" when it returned the data)
    movies,      \* module global movies (line 138): sequence of [title, movie_id]
    similarity,  \* module global similarity (line 138): [is_none, rows]
    cache,       \* st.cache_data store of fetch_poster: set of [key, value, ts]
    computed,    \* history: per argument the last outcome fetch_poster computed (not served from cache)
    now,         \* wall clock, seconds
    rec,         \* recommend's frame: movie, movie_index, movies_list, recommended_movies, recommended_movie_posters
    inflight,    \* fetch_poster calls blocked in requests.get: set of [arg, url, t0]
    last,        \* history: the fetch_poster call that returned last
    out,         \* how recommend ended: [names, posters, raised, shown]
    nFetch       \* number of direct fetch_poster calls made

vars == <<build, pc, load_error, movies, similarity, cache, computed, now, rec,
          inflight, last, out, nFetch>>

-----------------------------------------------------------------------------
(* Bounds *)

\* Largest catalog.
MaxCat == 6
\* Catalogs up to this size draw their scores from FineScores, larger ones from CoarseScores.
SmallCat == 4
\* Direct fetch_poster calls per behaviour of SpecFetch.
MaxFetches == 2
\* Clock ticks (of half a TTL each) per behaviour of SpecCache.
MaxTicks == 3

FineScores == {0, 1, 2}
CoarseScores == {0, 1}

-----------------------------------------------------------------------------
(* Program constants *)

TMDB_API_KEY == "a34b778de4aa74ff3cad06a6cd75fb11"
API_BASE_URL == "https://api.themoviedb.org/3/movie/"
POSTER_BASE_URL == "https://image.tmdb.org/t/p/w500/"
\* @st.cache_data(ttl=3600)
TTL == 3600
\* the slice [1:6] of line 81
SliceFrom == 1
SliceTo == 6
\* data['status_code'] == 7
InvalidKeyCode == 7
\* e.response.status_code == 404
NotFoundStatus == 404

Placeholder(text) == "https://placehold.co/500x750/cccccc/333333?text=" \o text

InvalidApiKey == Placeholder("Invalid+API+Key")
PosterUnavailable == Placeholder("Poster+Unavailable")
IdNotFound == Placeholder("ID+Not+Found")
NetworkError == Placeholder("Network+Error")
ConnectionRefused == Placeholder("Connection+Refused")
UnknownError == Placeholder("Unknown+Error")

Placeholders ==
    {InvalidApiKey, PosterUnavailable, IdNotFound, NetworkError,
     ConnectionRefused, UnknownError}

-----------------------------------------------------------------------------
(* Python values and exceptions *)

PyIntVal(n) == [t |-> "int", v |-> n]
PyStrVal(n) == [t |-> "str", v |-> n]
PyText == [t |-> "text", v |-> 0]
PyNone == [t |-> "none", v |-> 0]

\* int(x): an int is itself, a decimal string is parsed, any other string is a
\* ValueError and None a TypeError.
PyInt(x) ==
    CASE x.t = "int"  -> [exc |-> "none", v |-> x.v]
      [] x.t = "str"  -> [exc |-> "none", v |-> x.v]
      [] x.t = "text" -> [exc |-> "ValueError", v |-> 0]
      [] OTHER        -> [exc |-> "TypeError", v |-> 0]

\* The classes an exception is an instance of.  requests.exceptions.JSONDecodeError
\* derives from RequestException since requests 2.27; before that response.json()
\* raised a plain ValueError subclass.  The source pins no version.
Classes(cls) ==
    CASE cls = "HTTPError"       -> {"HTTPError", "RequestException", "Exception"}
      [] cls = "ConnectionError" -> {"ConnectionError", "RequestException", "Exception"}
      [] cls = "JSONDecodeError" ->
            IF build = "json_is_request_exception"
            THEN {"JSONDecodeError", "RequestException", "ValueError", "Exception"}
            ELSE {"JSONDecodeError", "ValueError", "Exception"}
      [] OTHER                    -> {cls, "Exception"}

Builds == {"json_is_value_error", "json_is_request_exception"}

Raise(cls, status) == [exc |-> cls, status |-> status, value |-> ""]
Return(value) == [exc |-> "none", status |-> 0, value |-> value]

-----------------------------------------------------------------------------
(* The remote service *)

\* What requests.get(url) can produce: a transport failure, or an HTTP response
\* with a status and a body.  poster_path "<absent>" is a payload without the
\* field and "<null>" a JSON null; both read as None through data.get.
Absent == "<absent>"
Null == "<null>"

Response(transport, status, body, has_code, code, path) ==
    [transport |-> transport, status |-> status, body |-> body,
     has_code |-> has_code, status_code |-> code, poster_path |-> path]

NoResp == Response("none", 0, "none", FALSE, 0, Absent)
TransportFailure == Response("failed", 0, "none", FALSE, 0, Absent)

ErrorResponses ==
    {Response("ok", 404, "object", TRUE, 34, Absent),
     Response("ok", 401, "object", TRUE, 7, Absent),
     Response("ok", 500, "malformed", FALSE, 0, Absent)}

SuccessResponses ==
    {Response("ok", 200, "malformed", FALSE, 0, Absent),
     Response("ok", 200, "nondict", FALSE, 0, Absent)}
    \cup {Response("ok", 200, "object", FALSE, 0, p) :
            p \in {Absent, Null, "", "a.jpg"}}
    \cup {Response("ok", 200, "object", TRUE, c, p) :
            c \in {7, 34}, p \in {Absent, Null, "", "a.jpg"}}

Responses == {TransportFailure} \cup ErrorResponses \cup SuccessResponses

\* The poster the service holds for movie n.
PosterOf(n) == "p" \o ToString(n) \o ".jpg"

\* The service as the application sees it: down, or answering with the movie's poster.
ServiceResponses(n) ==
    {TransportFailure, Response("ok", 200, "object", FALSE, 0, PosterOf(n))}

\* A small family for the cache runs: a poster, another poster, a 404, a failure.
CacheResponses ==
    {TransportFailure,
     Response("ok", 404, "object", TRUE, 34, Absent),
     Response("ok", 200, "object", FALSE, 0, "a.jpg"),
     Response("ok", 200, "object", FALSE, 0, "b.jpg")}

-----------------------------------------------------------------------------
(* fetch_poster, lines 16-67 *)

\* line 26
Url(n) ==
    API_BASE_URL \o ToString(n) \o "?api_key=" \o TMDB_API_KEY \o "&language=en-US"

\* if poster_path: (None and "" are falsy)
Truthy(path) == path \notin {Absent, Null, ""}

\* Lines 28-45: the try body from requests.get on.  raise_for_status raises for
\* 400 <= status < 600; response.json() raises on a body that is not JSON; a
\* JSON value that is no object has no .get (AttributeError).
AfterGet(resp) ==
    IF resp.transport = "failed" THEN Raise("ConnectionError", 0)
    ELSE IF resp.status >= 400 /\ resp.status < 600 THEN Raise("HTTPError", resp.status)
    ELSE IF resp.body = "malformed" THEN Raise("JSONDecodeError", 0)
    ELSE IF resp.body = "nondict" THEN Raise("AttributeError", 0)
    ELSE IF resp.has_code /\ resp.status_code = InvalidKeyCode THEN Return(InvalidApiKey)
    ELSE IF Truthy(resp.poster_path) THEN Return(POSTER_BASE_URL \o resp.poster_path)
    ELSE Return(PosterUnavailable)

Returned(value) == [raised |-> "none", value |-> value]
Propagated(cls) == [raised |-> cls, value |-> ""]

\* The handler chain without its last clause.
HandleNoCatchAll(e) ==
    IF "HTTPError" \in Classes(e.exc)
    THEN IF e.status = NotFoundStatus THEN Returned(IdNotFound) ELSE Returned(NetworkError)
    ELSE IF "RequestException" \in Classes(e.exc) THEN Returned(ConnectionRefused)
    ELSE Propagated(e.exc)

\* Lines 47-67: the except clauses, tried in order.
Handle(e) ==
    IF "HTTPError" \in Classes(e.exc)
    THEN IF e.status = NotFoundStatus THEN Returned(IdNotFound) ELSE Returned(NetworkError)
    ELSE IF "RequestException" \in Classes(e.exc) THEN Returned(ConnectionRefused)
    ELSE IF "Exception" \in Classes(e.exc) THEN Returned(UnknownError)
    ELSE Propagated(e.exc)

\* Lines 28-67 for one response.
FetchFinish(resp) ==
    LET b == AfterGet(resp)
    IN  IF b.exc = "none" THEN Returned(b.value) ELSE Handle(b)

\* st.cache_data(ttl=3600), line 16: the entries for arg that have not expired.
Hit(arg) == {e \in cache : e.key = arg /\ now - e.ts < TTL}

\* A cache that keeps real posters only.
CacheStoreOkOnly(arg, value) ==
    IF value \in Placeholders THEN cache
    ELSE {e \in cache : e.key # arg} \cup {[key |-> arg, value |-> value, ts |-> now]}

\* st.cache_data, line 16: whatever the function returns is stored under its argument.
CacheStore(arg, value) ==
    {e \in cache : e.key # arg} \cup {[key |-> arg, value |-> value, ts |-> now]}

\* Lines 16-28: the call up to requests.get.  A live cache entry is returned
\* without running the body; int(movie_id) failing goes straight to the handlers;
\* otherwise the call blocks in requests.get.
FetchStart(arg) ==
    IF Hit(arg) # {}
    THEN [phase |-> "hit", r |-> Returned((CHOOSE e \in Hit(arg) : TRUE).value), url |-> ""]
    ELSE LET c == PyInt(arg)
         IN  IF c.exc # "none"
             THEN [phase |-> "returned", r |-> Handle(Raise(c.exc, 0)), url |-> ""]
             ELSE [phase |-> "blocked", r |-> Returned(""), url |-> Url(c.v)]

NoCall ==
    [arg |-> PyNone, t0 |-> 0, t1 |-> 0, resp |-> NoResp, raised |-> "none",
     res |-> "", remote |-> FALSE, hit |-> FALSE, returned |-> FALSE]

\* A fetch_poster call returns (or raises): the decorator stores a returned value
\* that was computed, and the history variables record the call.
Completed(arg, t0, resp, r, remote, hit) ==
    /\ last' = [arg |-> arg, t0 |-> t0, t1 |-> now, resp |-> resp, raised |-> r.raised,
                res |-> r.value, remote |-> remote, hit |-> hit, returned |-> TRUE]
    /\ IF hit \/ r.raised # "none"
       THEN UNCHANGED <<cache, computed>>
       ELSE /\ cache' = CacheStore(arg, r.value)
            /\ computed' = {e \in computed : e.key # arg}
                             \cup {[key |-> arg, value |-> r.value, ts |-> now, remote |-> remote]}

-----------------------------------------------------------------------------
(* The catalog, load_data (lines 105-134) and the script's globals (138-139) *)

TitleOf(i) == "Movie " \o ToString(i)
IdOf(i) == 10 * i
Nonexistent == "Nonexistent Movie"
NoSelection == "<None>"

Rows(n) == [1..n -> IF n <= SmallCat THEN FineScores ELSE CoarseScores]

\* What the two pickle files can hold.  A good pair is a catalog of n items and a
\* matrix; recommend reads only the row of the queried item, so every row of the
\* matrix is the same sequence and every (row, position) pair is covered.
FailedArtifacts ==
    {[kind |-> k, n |-> 0, row |-> <<>>] : k \in {"missing", "malformed", "no_movie_id"}}

GoodArtifacts ==
    UNION {{[kind |-> "ok", n |-> n, row |-> r] : r \in Rows(n)} : n \in 0..MaxCat}

Artifacts == FailedArtifacts \cup GoodArtifacts

Catalog(a) == [i \in 1..a.n |-> [title |-> TitleOf(i), movie_id |-> PyIntVal(IdOf(i))]]
Matrix(a) == [is_none |-> FALSE, rows |-> [i \in 1..a.n |-> a.row]]

EmptyDataFrame == <<>>
NoMatrix == [is_none |-> TRUE, rows |-> <<>>]

\* load_data: (movies, similarity) and the error it displayed.
LoadResult(a) ==
    CASE a.kind = "missing"     -> [movies |-> EmptyDataFrame, similarity |-> NoMatrix, err |-> "FileNotFoundError"]
      [] a.kind = "malformed"   -> [movies |-> EmptyDataFrame, similarity |-> NoMatrix, err |-> "Exception"]
      [] a.kind = "no_movie_id" -> [movies |-> EmptyDataFrame, similarity |-> NoMatrix, err |-> "no_movie_id"]
      [] OTHER                  -> [movies |-> Catalog(a), similarity |-> Matrix(a), err |-> "none"]

\* line 139
movie_list == {movies[i].title : i \in 1..Len(movies)}

\* The gate left open whatever load_data returned.
CanRecommendAlways == TRUE

\* line 203
CanRecommend == Len(movies) > 0 /\ ~similarity.is_none

-----------------------------------------------------------------------------
(* recommend, lines 71-101 *)

\* list(enumerate(distances))
Enumerate(d) == [i \in 1..Len(d) |-> <<i, d[i]>>]

\* x goes in front of the first element whose score is not greater: equal scores
\* end up in reverse order of arrival.
InsertBeforeEqual(s, x) ==
    LET ahead == {j \in 1..Len(s) : s[j][2] > x[2]}
        k == Cardinality(ahead)
    IN  SubSeq(s, 1, k) \o <<x>> \o SubSeq(s, k + 1, Len(s))

\* One step of the stable descending sort: x goes after every element whose
\* score is greater or equal.
InsertDesc(s, x) ==
    LET ahead == {j \in 1..Len(s) : s[j][2] >= x[2]}
        k == Cardinality(ahead)
    IN  SubSeq(s, 1, k) \o <<x>> \o SubSeq(s, k + 1, Len(s))

RECURSIVE SortedDescFrom(_, _, _)
SortedDescFrom(acc, s, i) ==
    IF i > Len(s) THEN acc ELSE SortedDescFrom(InsertDesc(acc, s[i]), s, i + 1)

\* sorted(..., reverse=True, key=lambda x: x[1]): descending by score; the sort
\* is stable and reverse=True keeps equal keys in their original order.
SortedDesc(s) == SortedDescFrom(<<>>, s, 1)

\* s[a:b]
Slice(s, a, b) == SubSeq(s, a + 1, IF b < Len(s) THEN b ELSE Len(s))

\* The top of the sorted list kept.
TopNoSkip(distances) == Slice(SortedDesc(Enumerate(distances)), 0, SliceTo - 1)

\* line 81
Top(distances) == Slice(SortedDesc(Enumerate(distances)), SliceFrom, SliceTo)

\* A lookup that falls back to the first item.
MatchesOrFirst(movie) ==
    LET m == {i \in 1..Len(movies) : movies[i].title = movie}
    IN  IF m = {} THEN {i \in 1..Len(movies) : i = 1} ELSE m

\* movies[movies['title'] == movie].index: the positions whose title matches
Matches(movie) == {i \in 1..Len(movies) : movies[i].title = movie}

Min(S) == CHOOSE x \in S : \A y \in S : x <= y

NoRec ==
    [movie |-> "", movie_index |-> 0, movies_list |-> <<>>,
     recommended_movies |-> <<>>, recommended_movie_posters |-> <<>>]

\* names, posters: the two lists returned; raised: the exception that left
\* recommend instead ("none" when it returned); shown: the st.error it displayed.
NoOut == [names |-> <<>>, posters |-> <<>>, raised |-> "none", shown |-> "not called"]

\* Lines 96-101: except IndexError shows the not-found message, except Exception
\* the unexpected-error message; both return [], [].
Failed(cls) ==
    IF cls = "IndexError"
    THEN [names |-> <<>>, posters |-> <<>>, raised |-> "none", shown |-> "not found"]
    ELSE IF "Exception" \in Classes(cls)
    THEN [names |-> <<>>, posters |-> <<>>, raised |-> "none", shown |-> "unexpected"]
    ELSE [names |-> <<>>, posters |-> <<>>, raised |-> cls, shown |-> "none"]

\* Lines 73-84: look the title up, read its row, sort, slice.  The bare
\* pd.DataFrame() of a failed load has no 'title' column (KeyError); no match
\* makes .index[0] an IndexError.
RecommendCall(movie) ==
    /\ IF load_error # "none"
       THEN /\ out' = Failed("KeyError")
            /\ pc' = "done"
            /\ rec' = [NoRec EXCEPT !.movie = movie]
       ELSE IF Matches(movie) = {}
       THEN /\ out' = Failed("IndexError")
            /\ pc' = "done"
            /\ rec' = [NoRec EXCEPT !.movie = movie]
       ELSE LET movie_index == Min(Matches(movie))
                distances == similarity.rows[movie_index]
            IN  /\ rec' = [movie |-> movie, movie_index |-> movie_index,
                           movies_list |-> Top(distances),
                           recommended_movies |-> <<>>,
                           recommended_movie_posters |-> <<>>]
                /\ pc' = "recommend"
                /\ out' = NoOut
    /\ UNCHANGED <<build, load_error, movies, similarity, cache, computed, now,
                   inflight, last, nFetch>>

\* The loop goes on to the next neighbour with calls still outstanding.
CanStartNextFanOut == TRUE

\* The for loop of line 87 is sequential: fetch_poster (line 92) has returned
\* before the next iteration starts.
CanStartNext == inflight = {}

\* recommend after fetch_poster returned r into frame f: line 92 appends, and an
\* exception out of fetch_poster would reach the handler of line 99.
AfterFetch(f, r) ==
    IF r.raised = "none"
    THEN /\ rec' = [f EXCEPT !.recommended_movie_posters = Append(@, r.value)]
         /\ UNCHANGED <<pc, out>>
    ELSE /\ rec' = [NoRec EXCEPT !.movie = f.movie]
         /\ pc' = "done"
         /\ out' = Failed(r.raised)

\* Lines 87-92, one iteration up to the point where fetch_poster returns or
\* blocks in requests.get.
RecLoop ==
    /\ pc = "recommend"
    /\ Len(rec.recommended_movies) < Len(rec.movies_list)
    /\ CanStartNext
    /\ LET i == rec.movies_list[Len(rec.recommended_movies) + 1]
           c == PyInt(movies[i[1]].movie_id)
           movie_id == PyIntVal(c.v)
           f == [rec EXCEPT !.recommended_movies = Append(@, movies[i[1]].title)]
           s == FetchStart(movie_id)
       IN  IF c.exc # "none"
           THEN /\ rec' = [NoRec EXCEPT !.movie = rec.movie]
                /\ pc' = "done"
                /\ out' = Failed(c.exc)
                /\ UNCHANGED <<cache, computed, inflight, last>>
           ELSE IF s.phase = "blocked"
           THEN /\ inflight' = inflight \cup {[arg |-> movie_id, url |-> s.url, t0 |-> now]}
                /\ rec' = f
                /\ UNCHANGED <<pc, out, cache, computed, last>>
           ELSE /\ Completed(movie_id, now, NoResp, s.r, FALSE, s.phase = "hit")
                /\ AfterFetch(f, s.r)
                /\ UNCHANGED inflight
    /\ UNCHANGED <<build, load_error, movies, similarity, now, nFetch>>

\* line 94
RecReturn ==
    /\ pc = "recommend"
    /\ Len(rec.recommended_movies) = Len(rec.movies_list)
    /\ inflight = {}
    /\ out' = [names |-> rec.recommended_movies,
               posters |-> rec.recommended_movie_posters,
               raised |-> "none", shown |-> "none"]
    /\ pc' = "done"
    /\ UNCHANGED <<build, load_error, movies, similarity, cache, computed, now, rec,
                   inflight, last, nFetch>>

-----------------------------------------------------------------------------
(* Steps of the environment and of the callers *)

\* requests.get returns or raises for the blocked call c, and fetch_poster runs
\* to its return (lines 28-67); inside recommend the loop body then finishes.
RemoteRespond(c, resp) ==
    /\ c \in inflight
    /\ inflight' = inflight \ {c}
    /\ LET r == FetchFinish(resp)
       IN  /\ Completed(c.arg, c.t0, resp, r, TRUE, FALSE)
           /\ IF pc = "recommend" THEN AfterFetch(rec, r) ELSE UNCHANGED <<rec, pc, out>>
    /\ UNCHANGED <<build, load_error, movies, similarity, now, nFetch>>

\* fetch_poster(arg) called on its own.
CallFetch(arg) ==
    /\ pc = "lib"
    /\ inflight = {}
    /\ LET s == FetchStart(arg)
       IN  IF s.phase = "blocked"
           THEN /\ inflight' = {[arg |-> arg, url |-> s.url, t0 |-> now]}
                /\ UNCHANGED <<cache, computed, last>>
           ELSE /\ Completed(arg, now, NoResp, s.r, FALSE, s.phase = "hit")
                /\ UNCHANGED inflight
    /\ UNCHANGED <<build, pc, load_error, movies, similarity, now, rec, out>>

\* Line 138: the script loads the data.
LoadData ==
    /\ pc = "start"
    /\ \E a \in Artifacts :
          LET l == LoadResult(a)
          IN  /\ movies' = l.movies
              /\ similarity' = l.similarity
              /\ load_error' = l.err
    /\ pc' = "idle"
    /\ UNCHANGED <<build, cache, computed, now, rec, inflight, last, out, nFetch>>

\* st.selectbox over movie_list: no option gives None.
Selectable == IF movie_list = {} THEN {NoSelection} ELSE movie_list

\* Lines 203-213: behind the gate, a title is chosen and the button pressed.
Click ==
    /\ pc = "idle"
    /\ CanRecommend
    /\ \E movie \in Selectable : RecommendCall(movie)

\* recommend(movie) called on its own, with any title.
RecommendDirect ==
    /\ pc = "lib"
    /\ \E movie \in movie_list \cup {Nonexistent} : RecommendCall(movie)

AppRespond ==
    \E c \in inflight : \E resp \in ServiceResponses(PyInt(c.arg).v) : RemoteRespond(c, resp)

Inputs == {PyIntVal(7), PyIntVal(0), PyIntVal(-1), PyStrVal(7), PyText, PyNone}

FetchCall ==
    /\ nFetch < MaxFetches
    /\ nFetch' = nFetch + 1
    /\ \E arg \in Inputs : CallFetch(arg)

FetchRespond ==
    /\ \E c \in inflight : \E resp \in Responses : RemoteRespond(c, resp)

CacheInputs == {PyIntVal(7), PyIntVal(999), PyText}

CacheCall ==
    /\ UNCHANGED nFetch
    /\ \E arg \in CacheInputs : CallFetch(arg)

CacheRespond ==
    /\ \E c \in inflight : \E resp \in CacheResponses : RemoteRespond(c, resp)

\* Time passes, half a TTL at a time.
Tick ==
    /\ now < MaxTicks * (TTL \div 2)
    /\ now' = now + (TTL \div 2)
    /\ UNCHANGED <<build, pc, load_error, movies, similarity, cache, computed, rec,
                   inflight, last, out, nFetch>>

-----------------------------------------------------------------------------
(* Specifications *)

InitCommon ==
    /\ build \in Builds
    /\ load_error = "none"
    /\ cache = {}
    /\ computed = {}
    /\ now = 0
    /\ rec = NoRec
    /\ inflight = {}
    /\ last = NoCall
    /\ out = NoOut
    /\ nFetch = 0

\* The application: the script starts, loads the data, and serves one button press.
Init ==
    /\ InitCommon
    /\ pc = "start"
    /\ movies = EmptyDataFrame
    /\ similarity = NoMatrix

Next == LoadData \/ Click \/ RecLoop \/ AppRespond \/ RecReturn

Spec == Init /\ [][Next]_vars

\* recommend as a function: called once, with any title, over a loaded catalog.
InitRecommend ==
    /\ InitCommon
    /\ pc = "lib"
    /\ \E a \in GoodArtifacts :
          /\ movies = Catalog(a)
          /\ similarity = Matrix(a)

NextRecommend == RecommendDirect \/ RecLoop \/ AppRespond \/ RecReturn

SpecRecommend == InitRecommend /\ [][NextRecommend]_vars

\* fetch_poster as a function: any argument, any answer of the service.
InitFetch ==
    /\ InitCommon
    /\ pc = "lib"
    /\ movies = EmptyDataFrame
    /\ similarity = NoMatrix

NextFetch == FetchCall \/ FetchRespond

SpecFetch == InitFetch /\ [][NextFetch]_vars

\* fetch_poster over time: repeated calls while the clock runs past the TTL.
NextCache == CacheCall \/ CacheRespond \/ Tick

SpecCache == InitFetch /\ [][NextCache]_vars

-----------------------------------------------------------------------------
(* Properties *)

InRecommend == pc \in {"recommend", "done"} /\ rec.movie_index > 0

TitlePresent == rec.movie \in movie_list

\* C1: the neighbour list recommend builds for a title of the catalog never
\* holds the queried item itself (the item at the position the title was found
\* at), whatever the scores of the other items are.
C1_SelfExcluded ==
    InRecommend =>
        \A j \in 1..Len(rec.movies_list) : rec.movies_list[j][1] # rec.movie_index

C9_Order ==
    InRecommend =>
        LET l == rec.movies_list
            row == similarity.rows[rec.movie_index]
        IN  /\ \A j \in 1..Len(l) : l[j][1] \in 1..Len(row) /\ l[j][2] = row[l[j][1]]
            /\ \A a, b \in 1..Len(l) :
                  a < b => \/ l[a][2] > l[b][2]
                           \/ (l[a][2] = l[b][2] /\ l[a][1] < l[b][1])
            /\ pc = "done" =>
                  /\ Len(out.names) = Len(l)
                  /\ \A j \in 1..Len(l) : out.names[j] = movies[l[j][1]].title

C9_Witness ==
    /\ pc = "done"
    /\ out.shown = "none"
    /\ \E a, b \in 1..Len(rec.movies_list) :
          a < b /\ rec.movies_list[a][2] = rec.movies_list[b][2]
    /\ \E a, b \in 1..Len(rec.movies_list) :
          a < b /\ rec.movies_list[a][2] > rec.movies_list[b][2]

\* C4 as stated: a query for a title that matches no item ends with a
\* NotFoundError raised to the caller, not with an empty result.
C4_RaisesNotFound ==
    (pc = "done" /\ ~TitlePresent) => out.raised = "NotFoundError"

\* C4, amended: a query for a title that matches no item shows the not-found
\* message and returns the pair of empty lists; nothing is raised to the caller
\* and no poster is fetched.
C4_ReturnsEmptyWithMessage ==
    (pc = "done" /\ ~TitlePresent) =>
        /\ out.raised = "none"
        /\ out.shown = "not found"
        /\ out.names = <<>> /\ out.posters = <<>>
        /\ ~last.returned /\ inflight = {} /\ cache = {}

C4_Witness ==
    pc = "done" /\ rec.movie = Nonexistent /\ Len(movies) > 1

\* C8: after a failed load (file missing, malformed data, no movie_id column)
\* recommend is never invoked and no poster is fetched, from the cache or from
\* the remote service.
C8_Degraded ==
    load_error # "none" =>
        /\ pc = "idle"
        /\ out = NoOut /\ rec = NoRec
        /\ inflight = {} /\ ~last.returned /\ cache = {}

C8_Witness == pc = "idle" /\ load_error = "no_movie_id"

\* The external id of the j-th neighbour of the running request.
NeighbourId(j) == movies[rec.movies_list[j][1]].movie_id

\* C10: inside one recommend request at most one fetch is outstanding; while
\* the fetch for neighbour j is outstanding the results of neighbours 1..j-1 are
\* all in, and no later one has been asked for; and the j-th image reference is
\* what fetch_poster computed for the external id of the j-th title.
C10_Sequential ==
    pc \in {"recommend", "done"} =>
        LET titles == rec.recommended_movies
            posters == rec.recommended_movie_posters
        IN  /\ Cardinality(inflight) <= 1
            /\ Len(titles) = Len(posters) + Cardinality(inflight)
            /\ \A c \in inflight : c.arg = NeighbourId(Len(titles))
            /\ \A j \in 1..Len(posters) :
                  /\ titles[j] = movies[rec.movies_list[j][1]].title
                  /\ \E e \in computed : e.key = NeighbourId(j) /\ e.value = posters[j]
            /\ (pc = "done" /\ out.shown = "none") =>
                  out.names = titles /\ out.posters = posters

C10_Witness ==
    /\ pc = "recommend"
    /\ inflight # {}
    /\ Len(rec.recommended_movie_posters) >= 2
    /\ rec.recommended_movie_posters[1] = ConnectionRefused
    /\ rec.recommended_movie_posters[2] \notin Placeholders

\* C2: a fetch for an argument whose last computed outcome is younger than the
\* TTL issues no remote call and returns that outcome, a real reference or any
\* fallback alike; once that outcome is a TTL old, and it came from a remote
\* call, the next fetch for the argument issues a new remote call.
C2_CacheIdempotent ==
    [][\A e \in computed :
          (last' # last /\ last'.arg = e.key) =>
              /\ (last'.t0 - e.ts < TTL) =>
                    (last'.hit /\ ~last'.remote /\ last'.res = e.value)
              /\ (last'.t0 - e.ts >= TTL /\ e.remote) =>
                    (last'.remote /\ ~last'.hit)]_vars

C2_Witness ==
    /\ last.returned /\ last.hit /\ ~last.remote
    /\ last.arg = PyIntVal(999)
    /\ last.res = IdNotFound
    /\ last.t0 > 0

RealReferences == {POSTER_BASE_URL \o r.poster_path : r \in {x \in Responses : Truthy(x.poster_path)}}

\* C3: whatever the argument and whatever the remote service does, a
\* fetch_poster call that ends ends by returning, never by raising, and what it
\* returns is a real poster reference or one of the fixed placeholders.
C3_NeverRaises ==
    last.returned =>
        /\ last.raised = "none"
        /\ last.res \in RealReferences \cup Placeholders

C3_Witness ==
    /\ last.returned /\ last.remote
    /\ last.resp.status = 200 /\ last.resp.body = "malformed"
    /\ last.res \in Placeholders

\* The outcome C5 gives for each response of the remote service.
C5_Expected(resp) ==
    IF resp.transport = "failed" THEN ConnectionRefused
    ELSE IF resp.status = 404 THEN IdNotFound
    ELSE IF resp.status >= 400 THEN NetworkError
    ELSE IF resp.body # "object" THEN UnknownError
    ELSE IF resp.has_code /\ resp.status_code = 7 THEN InvalidApiKey
    ELSE IF resp.poster_path \in {Absent, Null, ""} THEN PosterUnavailable
    ELSE POSTER_BASE_URL \o resp.poster_path

\* C5: the outcome of an uncached fetch is the one the table gives for the
\* response: transport failure, 404, other error status, status_code 7, no
\* poster_path, poster_path, and any other error (a body that does not parse)
\* as "Unknown Error".
C5_OutcomeTable ==
    (last.returned /\ last.remote) =>
        last.raised = "none" /\ last.res = C5_Expected(last.resp)

\* The argument is, or parses to, a positive integer.
NormalizesToPositive(x) == x.t \in {"int", "str"} /\ x.v > 0

\* C6: for an argument that does not normalize to a positive integer (a
\* non-numeric value, zero, a negative integer) no network call is issued and
\* the fetch returns the "Unknown Error" placeholder.
C6_InvalidIdNoNetwork ==
    /\ \A c \in inflight : NormalizesToPositive(c.arg)
    /\ (last.returned /\ ~NormalizesToPositive(last.arg)) =>
          (~last.remote /\ last.res = UnknownError)

====
